---- MODULE Spec2Model ----
(***************************************************************************)
(* Model of internal/publish/model/exposure_model.go: the Publish request, *)
(* the Android nonce canonicalisation, the interval clock, NewTransformer, *)
(* TransformExposureKey and Transformer.TransformPublish.                  *)
(*                                                                         *)
(* Strings are sequences of one-character strings, so that sorting,        *)
(* upper-casing, base64 decoding and formatting act on characters as the   *)
(* Go code does.  int32 values are integers in MinInt32..MaxInt32 and a    *)
(* time.Time is a pair [hi, lo] with Unix seconds = hi * 2^32 + lo, lo an  *)
(* int32, so that int32(t.Unix()) is exactly lo.                           *)
(*                                                                         *)
(* The state: the build of the program (which sort it links), the value of *)
(* SKIP_KEY_DATE_VALIDATION, the transformer the process holds and how     *)
(* NewTransformer ended, the request, the TransformPublish call under way, *)
(* how the last TransformPublish call ended and the last nonce.            *)
(***************************************************************************)
EXTENDS Integers, Sequences, FiniteSets, TLC

VARIABLES build, env, transformer, ctor, inData, batchTime, run, out, nonce

vars == <<build, env, transformer, ctor, inData, batchTime, run, out, nonce>>

(***************************************************************************)
(* Characters and strings                                                  *)
(***************************************************************************)

\* The characters of the model in ascending byte order (Go compares strings
\* byte by byte).
AsciiChars ==
    <<"!", "+", ",", "-", ".", "/",
      "0", "1", "2", "3", "4", "5", "6", "7", "8", "9", "=",
      "A", "B", "C", "D", "E", "F", "G", "H", "I", "J", "K", "L", "M",
      "N", "O", "P", "Q", "R", "S", "T", "U", "V", "W", "X", "Y", "Z",
      "a", "b", "c", "d", "e", "f", "g", "h", "i", "j", "k", "l", "m",
      "n", "o", "p", "q", "r", "s", "t", "u", "v", "w", "x", "y", "z", "|">>

IndexOf(seq, c) == CHOOSE i \in 1..Len(seq) : seq[i] = c

Ord(c) == IndexOf(AsciiChars, c)

\* Go's s < t on strings: byte-wise lexicographic, a proper prefix is smaller.
RECURSIVE StrLess(_, _)
StrLess(s, t) ==
    IF t = <<>> THEN FALSE
    ELSE IF s = <<>> THEN TRUE
    ELSE IF Ord(Head(s)) # Ord(Head(t)) THEN Ord(Head(s)) < Ord(Head(t))
    ELSE StrLess(Tail(s), Tail(t))

LowerLetters ==
    <<"a", "b", "c", "d", "e", "f", "g", "h", "i", "j", "k", "l", "m",
      "n", "o", "p", "q", "r", "s", "t", "u", "v", "w", "x", "y", "z">>

UpperLetters ==
    <<"A", "B", "C", "D", "E", "F", "G", "H", "I", "J", "K", "L", "M",
      "N", "O", "P", "Q", "R", "S", "T", "U", "V", "W", "X", "Y", "Z">>

InSeq(seq, c) == \E i \in 1..Len(seq) : seq[i] = c

\* strings.ToUpper on the characters of the model.
ToUpper(s) ==
    [i \in 1..Len(s) |->
        IF InSeq(LowerLetters, s[i]) THEN UpperLetters[IndexOf(LowerLetters, s[i])]
        ELSE s[i]]

\* strings.Join(elems, sep)
RECURSIVE Join(_, _)
Join(elems, sep) ==
    IF elems = <<>> THEN <<>>
    ELSE IF Len(elems) = 1 THEN elems[1]
    ELSE elems[1] \o sep \o Join(Tail(elems), sep)

Digits == <<"0", "1", "2", "3", "4", "5", "6", "7", "8", "9">>

RECURSIVE FormatNat(_)
FormatNat(n) ==
    IF n < 10 THEN <<Digits[n + 1]>>
    ELSE FormatNat(n \div 10) \o <<Digits[(n % 10) + 1]>>

\* fmt's %v of an integer: decimal, with a leading minus sign when negative.
FormatInt(n) == IF n < 0 THEN <<"-">> \o FormatNat(-n) ELSE FormatNat(n)

(***************************************************************************)
(* base64util.DecodeString: standard base64 with padding, and when that    *)
(* fails standard base64 without padding.                                  *)
(***************************************************************************)

B64Alphabet ==
    UpperLetters \o LowerLetters \o Digits \o <<"+", "/">>

B64Val(c) == IndexOf(B64Alphabet, c) - 1

AllB64(s) == \A i \in 1..Len(s) : InSeq(B64Alphabet, s[i])

\* The bytes of a run of base64 characters whose length is not 1 mod 4.
\* Bits left over in a final group of 2 or 3 characters are dropped.
RECURSIVE B64Bytes(_)
B64Bytes(s) ==
    IF Len(s) = 0 THEN <<>>
    ELSE IF Len(s) = 2 THEN
        <<(B64Val(s[1]) * 64 + B64Val(s[2])) \div 16>>
    ELSE IF Len(s) = 3 THEN
        LET n == B64Val(s[1]) * 4096 + B64Val(s[2]) * 64 + B64Val(s[3])
        IN  <<n \div 1024, (n \div 4) % 256>>
    ELSE
        LET n == B64Val(s[1]) * 262144 + B64Val(s[2]) * 4096
                 + B64Val(s[3]) * 64 + B64Val(s[4])
        IN  <<n \div 65536, (n \div 256) % 256, n % 256>>
            \o B64Bytes(SubSeq(s, 5, Len(s)))

\* base64.RawStdEncoding.DecodeString
DecodeRaw(s) ==
    IF AllB64(s) /\ Len(s) % 4 # 1
    THEN [ok |-> TRUE, bytes |-> B64Bytes(s)]
    ELSE [ok |-> FALSE, bytes |-> <<>>]

\* base64.StdEncoding.DecodeString: whole groups of four, the last of which
\* may end in one or two padding characters.
DecodeStd(s) ==
    LET n == Len(s)
        body == IF n >= 2 /\ s[n] = "=" /\ s[n - 1] = "=" THEN SubSeq(s, 1, n - 2)
                ELSE IF n >= 1 /\ s[n] = "=" THEN SubSeq(s, 1, n - 1)
                ELSE s
    IN  IF n % 4 = 0 /\ AllB64(body) /\ Len(body) % 4 # 1
        THEN [ok |-> TRUE, bytes |-> B64Bytes(body)]
        ELSE [ok |-> FALSE, bytes |-> <<>>]

DecodeString(s) ==
    IF DecodeStd(s).ok THEN DecodeStd(s) ELSE DecodeRaw(s)

(***************************************************************************)
(* Integers and time                                                       *)
(***************************************************************************)

MaxInt32 == 2147483647

MinInt32 == (-2147483647) - 1

\* Go's integer division truncates toward zero (b > 0 here).
GoDiv(a, b) == IF a >= 0 THEN a \div b ELSE (a + (b - 1)) \div b

\* int32 addition, wrapping (operands are int32 values).
Add32(a, b) ==
    IF b >= 0 /\ a > MaxInt32 - b THEN ((a - MaxInt32) - 1) + b + MinInt32
    ELSE IF b < 0 /\ a < MinInt32 - b THEN ((a - MinInt32) + b) + MaxInt32 + 1
    ELSE a + b

\* t.Add of a whole number of seconds s, |s| < 2^31.
AddSeconds(t, s) ==
    IF s >= 0 /\ t.lo > MaxInt32 - s
        THEN [hi |-> t.hi + 1, lo |-> ((t.lo - MaxInt32) - 1) + s + MinInt32]
    ELSE IF s < 0 /\ t.lo < MinInt32 - s
        THEN [hi |-> t.hi - 1, lo |-> ((t.lo - MinInt32) + s) + MaxInt32 + 1]
    ELSE [hi |-> t.hi, lo |-> t.lo + s]


\* Seconds in one interval: intervalLength.Seconds().
intervalLength == 600

\* IntervalNumber: int32(t.UTC().Unix()) / int32(intervalLength.Seconds()).
\* The conversion to int32 keeps the low 32 bits of the Unix seconds.
IntervalNumber(t) == GoDiv(t.lo, intervalLength)

\* Days and seconds per day between the zero time.Time and the Unix epoch.
unixToInternalDays == 719162

secondsPerDay == 86400

\* Seconds since the zero time.Time, modulo d (0 < d, d * d an int32).
AbsMod(t, d) ==
    LET two32 == ((65536 % d) * (65536 % d)) % d
        epoch == ((unixToInternalDays % d) * (secondsPerDay % d)) % d
    IN  ((((t.hi % d) * two32) % d) + (t.lo % d) + epoch) % d

\* TruncateWindow(t, d) = t.Truncate(d): t rounded down to a multiple of d
\* since the zero time; t itself when d <= 0.
TruncateWindow(t, d) ==
    IF d <= 0 THEN t ELSE AddSeconds(t, -AbsMod(t, d))

(***************************************************************************)
(* Constants of exposure_model.go                                          *)
(***************************************************************************)

maxKeysPerPublish == 21

KeyLength == 16

MinTransmissionRisk == 0

MaxTransmissionRisk == 8

MinIntervalCount == 1

MaxIntervalCount == 144

(***************************************************************************)
(* Errors.  A Go error is modelled by the fixed part of its message and    *)
(* the values formatted into it.                                           *)
(***************************************************************************)

NoError == [kind |-> "nil"]

Errorf(kind, args) == [kind |-> kind, args |-> args]

\* fmt.Errorf("invalid publish data: %v", err)
WrapInvalidPublishData(e) == [kind |-> "invalid publish data", cause |-> e]

NilExposure == [nil |-> TRUE]

(***************************************************************************)
(* The process environment and strconv.ParseBool                           *)
(***************************************************************************)

\* os.Getenv: the value of SKIP_KEY_DATE_VALIDATION, empty when it is unset.
Getenv == IF env.set THEN env.value ELSE <<>>

ParseBoolTrue ==
    { <<"1">>, <<"t">>, <<"T">>, <<"T", "R", "U", "E">>,
      <<"t", "r", "u", "e">>, <<"T", "r", "u", "e">> }

ParseBoolFalse ==
    { <<"0">>, <<"f">>, <<"F">>, <<"F", "A", "L", "S", "E">>,
      <<"f", "a", "l", "s", "e">>, <<"F", "a", "l", "s", "e">> }

\* strconv.ParseBool: the value, and whether the string was a boolean.
ParseBool(s) ==
    IF s \in ParseBoolTrue THEN [value |-> TRUE, ok |-> TRUE]
    ELSE IF s \in ParseBoolFalse THEN [value |-> FALSE, ok |-> TRUE]
    ELSE [value |-> FALSE, ok |-> FALSE]

\* Mutant of SkipKeyDateValidation: skips whenever the variable holds a
\* boolean, true or false.
SkipWhenParsed == ParseBool(Getenv).ok

\* skip, _ := strconv.ParseBool(os.Getenv("SKIP_KEY_DATE_VALIDATION"))
SkipKeyDateValidation == ParseBool(Getenv).value

(***************************************************************************)
(* TransformExposureKey                                                    *)
(***************************************************************************)

\* Mutant of IntervalInFuture: a key starting at maxIntervalNumber passes.
IntervalInFutureStrict(exposureKey, maxIntervalNumber) ==
    exposureKey.IntervalNumber > maxIntervalNumber

\* The in-the-future test of one key.
IntervalInFuture(exposureKey, maxIntervalNumber) ==
    exposureKey.IntervalNumber >= maxIntervalNumber

\* The still-valid test of one key.
KeyStillValid(exposureKey, maxIntervalNumber) ==
    /\ ~SkipKeyDateValidation
    /\ Add32(exposureKey.IntervalNumber, exposureKey.IntervalCount) > maxIntervalNumber

TransformExposureKey(exposureKey, appPackageName, upcaseRegions, createdAt, minIntervalNumber, maxIntervalNumber) ==
    LET dec == DecodeString(exposureKey.Key)
        binKey == dec.bytes
        ic == exposureKey.IntervalCount
        tr == exposureKey.TransmissionRisk
        fail(e) == [exposure |-> NilExposure, err |-> e]
    IN  IF ~dec.ok THEN
            fail(Errorf("illegal base64 data", <<>>))
        ELSE IF Len(binKey) # KeyLength THEN
            fail(Errorf("invalid key length", <<Len(binKey), KeyLength>>))
        ELSE IF ic < MinIntervalCount \/ ic > MaxIntervalCount THEN
            fail(Errorf("invalid interval count", <<ic, MinIntervalCount, MaxIntervalCount>>))
        ELSE IF exposureKey.IntervalNumber < minIntervalNumber THEN
            fail(Errorf("interval number is too old",
                        <<exposureKey.IntervalNumber, minIntervalNumber>>))
        ELSE IF IntervalInFuture(exposureKey, maxIntervalNumber) THEN
            fail(Errorf("interval number is in the future",
                        <<exposureKey.IntervalNumber, maxIntervalNumber>>))
        ELSE IF KeyStillValid(exposureKey, maxIntervalNumber) THEN
            fail(Errorf("key that is still valid",
                        <<exposureKey.IntervalNumber, ic, maxIntervalNumber>>))
        ELSE IF tr < MinTransmissionRisk \/ tr > MaxTransmissionRisk THEN
            fail(Errorf("invalid transmission risk",
                        <<tr, MinTransmissionRisk, MaxTransmissionRisk>>))
        ELSE
            [exposure |->
                [ExposureKey |-> binKey,
                 TransmissionRisk |-> tr,
                 AppPackageName |-> appPackageName,
                 Regions |-> upcaseRegions,
                 IntervalNumber |-> exposureKey.IntervalNumber,
                 IntervalCount |-> ic,
                 CreatedAt |-> createdAt,
                 LocalProvenance |-> TRUE,
                 FederationSyncID |-> 0],
             err |-> NoError]


(***************************************************************************)
(* sort.Slice and sort.Strings.  sort.Slice does not promise to keep the   *)
(* order of elements that compare equal, and what it does with them is a   *)
(* matter of the Go release the program is built with:                     *)
(*   - up to Go 1.18 (quickSort_func) a slice of at most 12 elements gets  *)
(*     one pass that exchanges element i with element i-6 when it is less, *)
(*     and then an insertion sort; a longer slice is partitioned first;    *)
(*   - from Go 1.19 on (pdqsort_func) a slice of at most 12 elements gets  *)
(*     the insertion sort alone; a longer slice is partitioned first.      *)
(* The insertion sort moves element i left while it is less than its left  *)
(* neighbour.  The partitioning of the longer slices is not modelled: for  *)
(* them the result is any arrangement of the elements in which no element  *)
(* is less than an element before it.                                      *)
(***************************************************************************)

\* The sort implementations a build of the program can have.
Builds == {"quickSort", "pdqsort"}

\* The longest slice sorted without partitioning, and the gap of the pass
\* that quickSort_func makes before its insertion sort.
maxInsertion == 12

shellGap == 6

SwapAt(s, i, j) == [s EXCEPT ![i] = s[j], ![j] = s[i]]

RemoveAt(s, i) == SubSeq(s, 1, i - 1) \o SubSeq(s, i + 1, Len(s))

\* Every order of the elements of s.
RECURSIVE Orders(_)
Orders(s) ==
    IF s = <<>> THEN { <<>> }
    ELSE IF \A i \in 1..Len(s) : s[i] = s[1] THEN { s }
    ELSE UNION { { <<x>> \o r :
                     r \in Orders(RemoveAt(s, CHOOSE i \in 1..Len(s) : s[i] = x)) } :
                   x \in {s[i] : i \in 1..Len(s)} }

\* Mutant of EntityLess: no tie-break on the interval count.
EntityLessNoTie(a, b) == a.IntervalNumber < b.IntervalNumber

\* The less function of the sort in TransformPublish.
EntityLess(a, b) ==
    IF a.IntervalNumber = b.IntervalNumber
    THEN a.IntervalCount < b.IntervalCount
    ELSE a.IntervalNumber < b.IntervalNumber

RECURSIVE SinkEntity(_, _)
SinkEntity(s, j) ==
    IF j > 1 /\ EntityLess(s[j], s[j - 1])
    THEN SinkEntity(SwapAt(s, j, j - 1), j - 1)
    ELSE s

\* insertionSort_func from element i on.
RECURSIVE SortEntitiesFrom(_, _)
SortEntitiesFrom(s, i) ==
    IF i > Len(s) THEN s ELSE SortEntitiesFrom(SinkEntity(s, i), i + 1)

\* The pass with gap 6 of quickSort_func, from element i on.
RECURSIVE GapPassEntities(_, _)
GapPassEntities(s, i) ==
    IF i > Len(s) THEN s
    ELSE IF EntityLess(s[i], s[i - shellGap])
         THEN GapPassEntities(SwapAt(s, i, i - shellGap), i + 1)
         ELSE GapPassEntities(s, i + 1)

\* Every arrangement of s, a sorted slice, in which no element is less than
\* one before it: the elements that compare equal to the first one, in every
\* order, before such an arrangement of the others.
RECURSIVE ArrangeEntities(_)
ArrangeEntities(s) ==
    IF s = <<>> THEN { <<>> }
    ELSE LET g == Cardinality({i \in 1..Len(s) : ~EntityLess(s[1], s[i])})
         IN  { a \o r : a \in Orders(SubSeq(s, 1, g)),
                        r \in ArrangeEntities(SubSeq(s, g + 1, Len(s))) }

\* The slices sort.Slice can leave in place of s in a build b.
SortEntities(b, s) ==
    IF Len(s) > maxInsertion THEN ArrangeEntities(SortEntitiesFrom(s, 2))
    ELSE IF b = "quickSort" THEN { SortEntitiesFrom(GapPassEntities(s, shellGap + 1), 2) }
    ELSE { SortEntitiesFrom(s, 2) }

\* The less function of the key sort in AndroidNonce.
KeyLess(a, b) == StrLess(a.Key, b.Key)

RECURSIVE SinkKey(_, _)
SinkKey(s, j) ==
    IF j > 1 /\ KeyLess(s[j], s[j - 1])
    THEN SinkKey(SwapAt(s, j, j - 1), j - 1)
    ELSE s

RECURSIVE SortKeysFrom(_, _)
SortKeysFrom(s, i) ==
    IF i > Len(s) THEN s ELSE SortKeysFrom(SinkKey(s, i), i + 1)

RECURSIVE GapPassKeys(_, _)
GapPassKeys(s, i) ==
    IF i > Len(s) THEN s
    ELSE IF KeyLess(s[i], s[i - shellGap])
         THEN GapPassKeys(SwapAt(s, i, i - shellGap), i + 1)
         ELSE GapPassKeys(s, i + 1)

RECURSIVE ArrangeKeys(_)
ArrangeKeys(s) ==
    IF s = <<>> THEN { <<>> }
    ELSE LET g == Cardinality({i \in 1..Len(s) : ~KeyLess(s[1], s[i])})
         IN  { a \o r : a \in Orders(SubSeq(s, 1, g)),
                        r \in ArrangeKeys(SubSeq(s, g + 1, Len(s))) }

\* The slices the key sort of AndroidNonce can leave in a build b.
SortKeys(b, s) ==
    IF Len(s) > maxInsertion THEN ArrangeKeys(SortKeysFrom(s, 2))
    ELSE IF b = "quickSort" THEN { SortKeysFrom(GapPassKeys(s, shellGap + 1), 2) }
    ELSE { SortKeysFrom(s, 2) }

RECURSIVE SinkString(_, _)
SinkString(s, j) ==
    IF j > 1 /\ StrLess(s[j], s[j - 1])
    THEN SinkString(SwapAt(s, j, j - 1), j - 1)
    ELSE s

RECURSIVE SortStringsFrom(_, _)
SortStringsFrom(s, i) ==
    IF i > Len(s) THEN s ELSE SortStringsFrom(SinkString(s, i), i + 1)

\* sort.Strings.  Strings that compare equal are the same string, so every
\* sorting algorithm leaves the same slice.
SortStrings(s) == SortStringsFrom(s, 2)

(***************************************************************************)
(* Publish.AndroidNonce                                                    *)
(***************************************************************************)

UpcaseRegions(regions) == [i \in 1..Len(regions) |-> ToUpper(regions[i])]

\* fmt.Sprintf("%v.%v.%v.%v", k.Key, k.IntervalNumber, k.IntervalCount,
\* k.TransmissionRisk)
RenderKey(k) ==
    k.Key \o <<".">> \o FormatInt(k.IntervalNumber) \o <<".">>
          \o FormatInt(k.IntervalCount) \o <<".">> \o FormatInt(k.TransmissionRisk)

\* The cleartext for one sorted slice of keys.
CleartextOf(p, sortedKeys) ==
    LET sortedRegions == SortStrings(UpcaseRegions(p.Regions))
        keys == [i \in 1..Len(sortedKeys) |-> RenderKey(sortedKeys[i])]
    IN  p.AppPackageName \o <<"|">>
        \o Join(keys, <<",">>) \o <<"|">>
        \o Join(sortedRegions, <<",">>) \o <<"|">>
        \o p.VerificationPayload

\* The cleartexts AndroidNonce can build for p in a build b: one for each
\* slice the key sort can leave.
Cleartext(b, p) == { CleartextOf(p, sortedKeys) : sortedKeys \in SortKeys(b, p.Keys) }

\* The nonces AndroidNonce can return for p in a build b.  The digest is
\* kept symbolic: base64 of the SHA-256 of the cleartext, equal for two
\* cleartexts exactly when the cleartexts are equal.
AndroidNonce(b, p) == { [sha256 |-> c] : c \in Cleartext(b, p) }

(***************************************************************************)
(* NewTransformer and Transformer.TransformPublish                         *)
(***************************************************************************)

NilTransformer == [nil |-> TRUE]

\* Whether NewTransformer rejects the key limit.
BadMaxExposureKeys(maxExposureKeys) ==
    maxExposureKeys < 0 \/ maxExposureKeys > maxKeysPerPublish

NewTransformer(maxExposureKeys, maxIntervalStartAge, truncateWindow) ==
    IF BadMaxExposureKeys(maxExposureKeys)
    THEN [t |-> NilTransformer,
          err |-> Errorf("maxExposureKeys must be > 0 and <=",
                         <<maxKeysPerPublish, maxExposureKeys>>)]
    ELSE [t |-> [nil |-> FALSE,
                 maxExposureKeys |-> maxExposureKeys,
                 maxIntervalStartAge |-> maxIntervalStartAge,
                 truncateWindow |-> truncateWindow],
          err |-> NoError]

\* Mutant of EndInterval: every key is taken to last a full day.
EndIntervalFullDay(ex) == Add32(ex.IntervalNumber, MaxIntervalCount)

\* The end of a record's coverage: ex.IntervalNumber + ex.IntervalCount.
EndInterval(ex) == Add32(ex.IntervalNumber, ex.IntervalCount)

\* The walk over the sorted records from index i on: the error it ends with.
\* (The loop also counts records per start interval in startIntervals,
\* which nothing reads.)
RECURSIVE OverlapScan(_, _, _, _)
OverlapScan(entities, i, lastInterval, nextInterval) ==
    IF i > Len(entities) THEN NoError
    ELSE LET ex == entities[i]
         IN  IF ex.IntervalNumber = lastInterval THEN
                 OverlapScan(entities, i + 1, lastInterval, EndInterval(ex))
             ELSE IF ex.IntervalNumber < nextInterval THEN
                 Errorf("exposure keys have non aligned overlapping intervals",
                        <<ex.IntervalNumber, lastInterval, nextInterval>>)
             ELSE
                 OverlapScan(entities, i + 1, ex.IntervalNumber, EndInterval(ex))

\* Mutant of KeyFailure: the records built before the failing key are
\* returned with the error.
KeyFailurePartial(built, e) ==
    [records |-> built, err |-> WrapInvalidPublishData(e)]

\* What TransformPublish returns once the loop over the keys has failed
\* with error e, having built the records before the failing key.
KeyFailure(built, e) ==
    [records |-> <<>>, err |-> WrapInvalidPublishData(e)]

\* Mutant of TooManyKeys: one key more than the limit is let through.
TooManyKeysOffByOne(t, n) == n > t.maxExposureKeys + 1

\* Whether the number of keys is over the transformer's limit.
TooManyKeys(t, n) == n > t.maxExposureKeys

\* A return before the loop over the keys, and a return from the loop or
\* after it; transformed counts the keys handed to TransformExposureKey, and
\* window is <<minIntervalNumber, maxIntervalNumber>>.
EarlyReturn(e) ==
    [records |-> <<>>, err |-> e, transformed |-> 0, window |-> <<>>, createdAt |-> <<>>]

LateReturn(t, bt, r, k) ==
    [records |-> r.records, err |-> r.err, transformed |-> k,
     window |-> <<IntervalNumber(AddSeconds(bt, -t.maxIntervalStartAge)), IntervalNumber(bt)>>,
     createdAt |-> <<TruncateWindow(bt, t.truncateWindow)>>]

\* TransformPublish up to the loop over the keys: the error it returns, the
\* nil dereference of t.maxExposureKeys, or NoError when the loop is entered.
NilDereference == [kind |-> "panic: nil pointer dereference"]

TransformPublishEntry(t, p) ==
    IF Len(p.Keys) = 0 THEN
        Errorf("no exposure keys in publish request", <<>>)
    ELSE IF t = NilTransformer THEN
        NilDereference
    ELSE IF TooManyKeys(t, Len(p.Keys)) THEN
        Errorf("too many exposure keys in publish", <<Len(p.Keys), t.maxExposureKeys>>)
    ELSE NoError

\* One turn of the loop over the keys: TransformExposureKey on key i, which
\* reads SKIP_KEY_DATE_VALIDATION as it is at that moment.
TransformPublishKey(t, p, bt, i) ==
    TransformExposureKey(p.Keys[i], p.AppPackageName, UpcaseRegions(p.Regions),
                         TruncateWindow(bt, t.truncateWindow),
                         IntervalNumber(AddSeconds(bt, -t.maxIntervalStartAge)),
                         IntervalNumber(bt))

\* TransformPublish after the loop, every key transformed: the sort and the
\* walk over the sorted records.  One return for each slice the sort can
\* leave.
TransformPublishTail(b, t, bt, entities) ==
    { LET overlap == OverlapScan(sorted, 1, sorted[1].IntervalNumber,
                                 EndInterval(sorted[1]))
      IN  IF overlap # NoError
          THEN LateReturn(t, bt, [records |-> <<>>, err |-> overlap], Len(sorted))
          ELSE LateReturn(t, bt, [records |-> sorted, err |-> NoError], Len(sorted)) :
        sorted \in SortEntities(b, entities) }


(***************************************************************************)
(* Inputs                                                                  *)
(***************************************************************************)

\* The longest batch drawn freely from the key sets below.
MaxBatch == 3

Rep(c, n) == [i \in 1..n |-> c]

\* Encoded keys: two 16-byte keys with padding, one of them also without
\* padding, a 3-byte key and a string that is not base64.
KeyA == Rep("A", 22) \o <<"=", "=">>

KeyB == Rep("B", 22) \o <<"=", "=">>

KeyBRaw == Rep("B", 22)

KeyShort == Rep("A", 4)

KeyNotBase64 == Rep("A", 21) \o <<"!", "=", "=">>

\* Batch times: 2021-06-01T00:00:00Z, a time inside an interval and a
\* truncation window, one second before the Unix epoch, and a time past
\* 2^31 seconds.
T0 == [hi |-> 0, lo |-> 1622505600]

TMid == [hi |-> 0, lo |-> 1622506834]

TPre == [hi |-> 0, lo |-> -1]

T2038 == [hi |-> 1, lo |-> MinInt32 + 100]

Times == {T0, TMid, TPre, T2038}

\* IntervalNumber of T0; the keys are placed relative to it.
Now0 == IntervalNumber(T0)

Key(k, in, ic, tr) ==
    [Key |-> k, IntervalNumber |-> in, IntervalCount |-> ic, TransmissionRisk |-> tr]

\* Keys every check of which passes at T0 (k5 only when the still-valid
\* check is skipped).  k1 and k3 share a start; k4 starts inside k1 but
\* after the end of k3; k2 shares the encoded key of k1; k5 starts inside k2.
k1 == Key(KeyA, Now0 - 288, 144, 3)

k2 == Key(KeyA, Now0 - 144, 144, 0)

k3 == Key(KeyBRaw, Now0 - 288, 100, 8)

k4 == Key(KeyB, Now0 - 180, 36, 1)

k5 == Key(KeyB, Now0 - 10, 144, 2)

CoreKeys == {k1, k2, k3, k4, k5}

\* Keys that fail one check, some of which would fail a later one too.
kNotBase64 == Key(KeyNotBase64, Now0 - 288, 144, 3)

kShort == Key(KeyShort, Now0 - 288, 144, 3)

kCountOld == Key(KeyA, Now0 - 3000, 0, 3)

kCount145 == Key(KeyA, Now0 - 288, 145, 3)

kOld == Key(KeyA, Now0 - 3000, 144, 3)

kFuture == Key(KeyB, Now0, 1, 9)

kRisk == Key(KeyA, Now0 - 288, 144, 9)

BadKeys == {kNotBase64, kShort, kCountOld, kCount145, kOld, kFuture, kRisk}

\* A key that passes at TPre.
kPre == Key(KeyA, -10, 5, 1)

\* A batch longer than the gap of the pass quickSort_func makes: six keys
\* that share the encoded key, the start and the count, then an earlier key
\* with a smaller encoded key.
TiedBatch ==
    [i \in 1..6 |-> Key(KeyB, Now0 - 144, 144, i)] \o <<Key(KeyA, Now0 - 288, 144, 7)>>

Batches(S, n) == UNION {[1..m -> S] : m \in 0..n}

InsertAt(s, i, x) == SubSeq(s, 1, i - 1) \o <<x>> \o SubSeq(s, i, Len(s))

AppName == <<"u", "y", ".", "a", "p", "p">>

Payload == <<"v", "p">>

RegionLists ==
    { <<>>,
      << <<"u", "y">> >>,
      << <<"u", "y">>, <<"A", "R">> >>,
      << <<"U", "Y">>, <<"u", "y">>, <<"a", "r">> >> }

PublishOf(keys, regions) ==
    [Keys |-> keys, Regions |-> regions,
     AppPackageName |-> AppName, VerificationPayload |-> Payload]

\* Free-form fields that hold the separators of the cleartext: application
\* names, verification payloads and region lists.
SeparatorAppNames == { <<"a">>, <<"a", "|">> }

SeparatorPayloads == { <<"x">>, <<"|", "x">> }

SeparatorRegionLists ==
    { <<>>, << <<"A", ",", "B">> >>, << <<"A">>, <<"B">> >> }

\* Publish values without keys whose free-form fields hold separators.
SeparatorPublishes ==
    { [Keys |-> <<>>, Regions |-> rs, AppPackageName |-> a, VerificationPayload |-> v] :
        rs \in SeparatorRegionLists, a \in SeparatorAppNames, v \in SeparatorPayloads }

\* The requests of the model: a Publish value and a batch time.
Requests ==
    \* batches of keys that pass, in every order
    { [p |-> PublishOf(b, << <<"u", "y">> >>), bt |-> T0] :
        b \in Batches(CoreKeys, MaxBatch) }
    \cup
    \* one failing key at every position of a batch of passing keys
    { [p |-> PublishOf(InsertAt(r.b, r.i, r.x), << <<"u", "y">> >>), bt |-> T0] :
        r \in { q \in [b : Batches({k1, k3}, MaxBatch - 1), i : 1..MaxBatch, x : BadKeys] :
                  q.i <= Len(q.b) + 1 } }
    \cup
    \* batches at and over the hard limit
    { [p |-> PublishOf(Rep(k1, n), << <<"u", "y">> >>), bt |-> T0] :
        n \in {maxKeysPerPublish, maxKeysPerPublish + 1} }
    \cup
    \* region lists and batch times
    { [p |-> PublishOf(b, rs), bt |-> t] :
        b \in { <<k1, k2>>, <<k2, k1>>, <<kPre>> }, rs \in RegionLists, t \in Times }
    \cup
    \* separators inside the free-form fields
    { [p |-> q, bt |-> T0] : q \in SeparatorPublishes }
    \cup
    \* keys that compare equal in a batch of more than six
    { [p |-> PublishOf(TiedBatch, << <<"u", "y">> >>), bt |-> T0] }

(***************************************************************************)
(* State                                                                   *)
(***************************************************************************)

Unset == [set |-> FALSE, value |-> <<>>]

SetTo(v) == [set |-> TRUE, value |-> v]

\* Values SKIP_KEY_DATE_VALIDATION takes in the model.
EnvValues ==
    { Unset, SetTo(<<>>), SetTo(<<"t", "r", "u", "e">>), SetTo(<<"1">>),
      SetTo(<<"f", "a", "l", "s", "e">>), SetTo(<<"y", "e", "s">>) }

\* Arguments of NewTransformer: the key limit, the maximum age of a key's
\* start (14 days, in seconds) and the truncation window (seconds).
CtorArgs ==
    { <<-1, 1209600, 3600>>, <<0, 1209600, 3600>>, <<2, 1209600, 3600>>,
      <<maxKeysPerPublish, 1209600, 3600>>, <<maxKeysPerPublish, 1209600, 0>>,
      <<maxKeysPerPublish + 1, 1209600, 3600>> }

NoCall == [called |-> FALSE]

\* How the last TransformPublish call ended: with a return or with a panic.
Returned(r) == [called |-> TRUE, panicked |-> FALSE, result |-> r]

Panicked == [called |-> TRUE, panicked |-> TRUE]

\* No TransformPublish call is inside its loop, or one is about to hand key
\* i to TransformExposureKey, having built the records of the keys before.
Idle == [active |-> FALSE]

InLoop(i, entities) == [active |-> TRUE, i |-> i, entities |-> entities]

\* The builds of the program differ in the sort alone, and the sort differs
\* only on more than six elements: one build for the other requests.
Init ==
    /\ env = Unset
    /\ transformer = NilTransformer
    /\ ctor = NoCall
    /\ \E r \in Requests :
          /\ inData = r.p
          /\ batchTime = r.bt
          /\ build \in (IF Len(r.p.Keys) > shellGap /\ r.p.Keys # Rep(r.p.Keys[1], Len(r.p.Keys))
                        THEN Builds ELSE {"pdqsort"})
    /\ run = Idle
    /\ out = NoCall
    /\ nonce = NoCall

\* os.Setenv("SKIP_KEY_DATE_VALIDATION", v) or os.Unsetenv, anywhere in the
\* process, also while a TransformPublish call is between two keys.
Setenv ==
    /\ \E v \in EnvValues : v # env /\ env' = v
    /\ UNCHANGED <<build, transformer, ctor, inData, batchTime, run, out, nonce>>

\* The process builds its transformer; a failed call may be repeated.
NewTransformerCall ==
    /\ transformer = NilTransformer
    /\ \E a \in CtorArgs :
          LET r == NewTransformer(a[1], a[2], a[3])
          IN  /\ transformer' = r.t
              /\ ctor' = [called |-> TRUE, maxExposureKeys |-> a[1], err |-> r.err]
    /\ UNCHANGED <<build, env, inData, batchTime, run, out, nonce>>

\* TransformPublish on the transformer the process holds, nil when
\* NewTransformer has not succeeded.  The call reads the environment once
\* for each key, so one step takes it from one read to the next: the first
\* step runs from the entry to the end of the first turn of the loop, and
\* the step of the last key runs to the return.
TransformPublishCall ==
    /\ LET entry == IF run.active THEN NoError
                    ELSE TransformPublishEntry(transformer, inData)
           i == IF run.active THEN run.i ELSE 1
           built == IF run.active THEN run.entities ELSE <<>>
       IN  IF entry = NilDereference THEN
               out' = Panicked /\ run' = Idle
           ELSE IF entry # NoError THEN
               out' = Returned(EarlyReturn(entry)) /\ run' = Idle
           ELSE LET r == TransformPublishKey(transformer, inData, batchTime, i)
                IN  IF r.err # NoError THEN
                        /\ out' = Returned(LateReturn(transformer, batchTime,
                                                      KeyFailure(built, r.err), i))
                        /\ run' = Idle
                    ELSE IF i < Len(inData.Keys) THEN
                        /\ run' = InLoop(i + 1, Append(built, r.exposure))
                        /\ out' = out
                    ELSE
                        /\ \E res \in TransformPublishTail(build, transformer, batchTime,
                                                           Append(built, r.exposure)) :
                               out' = Returned(res)
                        /\ run' = Idle
    /\ UNCHANGED <<build, env, transformer, ctor, inData, batchTime, nonce>>

AndroidNonceCall ==
    /\ \E v \in AndroidNonce(build, inData) : nonce' = [called |-> TRUE, value |-> v]
    /\ UNCHANGED <<build, env, transformer, ctor, inData, batchTime, run, out>>

\* The transformer's side of the process: the environment, NewTransformer
\* and TransformPublish.
Next ==
    \/ Setenv
    \/ NewTransformerCall
    \/ TransformPublishCall

Spec == Init /\ [][Next]_vars

\* AndroidNonce reads the request alone and nothing reads what it returns,
\* so its calls are followed on their own.
NonceNext == AndroidNonceCall

NonceSpec == Init /\ [][NonceNext]_vars


(***************************************************************************)
(* Reading the outcome of the last TransformPublish call                   *)
(***************************************************************************)

\* The last call returned.
Called == out.called /\ ~out.panicked

Result == out.result

Succeeded == Called /\ Result.err = NoError

KeyCountErrors ==
    {"no exposure keys in publish request", "too many exposure keys in publish"}

OverlapError == "exposure keys have non aligned overlapping intervals"

\* The call got as far as the loop over the keys.
ReachedKeys == Called /\ Result.err.kind \notin KeyCountErrors

\* What TransformExposureKey returned for key i of the batch, one of the
\* keys the loop reached: "nil" or the kind of its error.
KeyOutcome(o, i) ==
    IF o.result.err.kind = "invalid publish data" /\ i = o.result.transformed
    THEN o.result.err.cause.kind
    ELSE "nil"

\* Two keys with different starts, the later one starting before the
\* earlier one ends.
Misaligned(keys) ==
    \E i, j \in 1..Len(keys) :
        /\ keys[i].IntervalNumber < keys[j].IntervalNumber
        /\ keys[j].IntervalNumber < keys[i].IntervalNumber + keys[i].IntervalCount

(***************************************************************************)
(* Claims                                                                  *)
(***************************************************************************)

\* C1: when every key of the batch passes the per-key checks, with the
\* still-valid check skipped or not, TransformPublish rejects the batch for
\* a misaligned overlap exactly when two keys with different interval
\* numbers X < Y have Y < X + intervalCount of the X key, whatever the order
\* of submission; keys sharing an interval number never cause it.
C1_OverlapIff ==
    (ReachedKeys /\ Result.err.kind # "invalid publish data")
        => ((Result.err.kind = OverlapError) <=> Misaligned(inData.Keys))

\* C1 witness: a batch rejected for the overlap of its first and last key,
\* submitted around a key that shares the start of the last one.
C1_Witness ==
    /\ Called
    /\ Result.err.kind = OverlapError
    /\ inData.Keys = <<k4, k3, k1>>


\* C2: AndroidNonce returns the same nonce for every permutation of Keys
\* and every permutation of Regions (every permutation is a product of
\* exchanges of two elements, so the exchanges are what is compared).
C2_NoncePermutationInvariant ==
    nonce.called =>
        /\ \A i, j \in 1..Len(inData.Keys) :
              AndroidNonce(build, [inData EXCEPT !.Keys = SwapAt(inData.Keys, i, j)])
                  = {nonce.value}
        /\ \A i, j \in 1..Len(inData.Regions) :
              AndroidNonce(build, [inData EXCEPT !.Regions = SwapAt(inData.Regions, i, j)])
                  = {nonce.value}

\* C3: TransformPublish is all-or-nothing: with an error it returns no
\* record, with records it returns no error, and the records it returns are
\* as many as the keys submitted.
C3_AllOrNothing ==
    Called =>
        /\ Result.err # NoError => Result.records = <<>>
        /\ Result.records # <<>> => Result.err = NoError
        /\ Result.err = NoError => Len(Result.records) = Len(inData.Keys)

\* C3 witness: a batch whose third key fails after two keys were
\* transformed.
C3_Witness ==
    /\ Called
    /\ Result.err.kind = "invalid publish data"
    /\ Result.transformed = 3
    /\ Result.records = <<>>

\* The three parts of the interval window property for key i, under the
\* window <<minIntervalNumber, maxIntervalNumber>> of the call.
TooOldRejected(i) ==
    inData.Keys[i].IntervalNumber < Result.window[1]
        => KeyOutcome(out, i) = "interval number is too old"

InFutureRejected(i) ==
    inData.Keys[i].IntervalNumber >= Result.window[2]
        => KeyOutcome(out, i) = "interval number is in the future"

InWindowPasses(i) ==
    (/\ Result.window[1] <= inData.Keys[i].IntervalNumber
     /\ inData.Keys[i].IntervalNumber < Result.window[2]
     /\ inData.Keys[i].IntervalNumber + inData.Keys[i].IntervalCount <= Result.window[2])
        => KeyOutcome(out, i) \notin
               {"interval number is too old", "interval number is in the future",
                "key that is still valid"}

\* The key was not rejected by a check that comes before the interval checks.
PassedEarlierChecks(o, i) ==
    KeyOutcome(o, i) \notin
        {"illegal base64 data", "invalid key length", "invalid interval count"}

\* C4 as claimed: every key with intervalNumber < minIntervalNumber is
\* rejected as too old, every key with intervalNumber >= maxIntervalNumber
\* as in the future, and a key inside the window that ends by
\* maxIntervalNumber gets none of the three interval errors.
C4_IntervalWindowAsClaimed ==
    ReachedKeys =>
        \A i \in 1..Result.transformed :
            TooOldRejected(i) /\ InFutureRejected(i) /\ InWindowPasses(i)

\* C4 amended: the same for the keys that pass the encoding, length and
\* interval-count checks, the in-the-future rejection being that of the
\* keys with intervalNumber >= minIntervalNumber.
C4_IntervalWindow ==
    ReachedKeys =>
        \A i \in 1..Result.transformed :
            PassedEarlierChecks(out, i) =>
                /\ TooOldRejected(i)
                /\ (inData.Keys[i].IntervalNumber >= Result.window[1]
                        => InFutureRejected(i))
                /\ InWindowPasses(i)

\* C4 witness: a key inside the window was transformed and the key after
\* it, starting at maxIntervalNumber, was rejected as in the future.
C4_Witness ==
    /\ ReachedKeys
    /\ Result.transformed = 2
    /\ inData.Keys[1].IntervalNumber >= Result.window[1]
    /\ inData.Keys[1].IntervalNumber + inData.Keys[1].IntervalCount <= Result.window[2]
    /\ inData.Keys[2].IntervalNumber = Result.window[2]
    /\ KeyOutcome(out, 2) = "interval number is in the future"

\* The override is explicitly enabled: set to a string that is a true
\* boolean.
ExplicitlyEnabled(e) ==
    e.set /\ e.value \in { <<"1">>, <<"t">>, <<"T">>, <<"T", "R", "U", "E">>,
                           <<"t", "r", "u", "e">>, <<"T", "r", "u", "e">> }

\* Key i reached the still-valid check of the call that produced o and ends
\* after maxIntervalNumber.
StillValidCase(o, i) ==
    /\ KeyOutcome(o, i) \notin
           {"illegal base64 data", "invalid key length", "invalid interval count",
            "interval number is too old", "interval number is in the future"}
    /\ inData.Keys[i].IntervalNumber + inData.Keys[i].IntervalCount > o.result.window[2]

\* The key a TransformPublish step hands to TransformExposureKey.
StepKey == IF run.active THEN run.i ELSE 1

\* The step is one of TransformPublish in which StepKey was handed to
\* TransformExposureKey: the call goes on to the next key or returns from
\* the loop or after it.
KeyStep ==
    /\ run' # run \/ out' # out
    /\ \/ run'.active
       \/ /\ out'.called
          /\ ~out'.panicked
          /\ out'.result.err.kind \notin KeyCountErrors

\* What TransformExposureKey returned in that step: "nil" or the kind of
\* its error.
StepOutcome == IF run'.active THEN "nil" ELSE KeyOutcome(out', StepKey)

\* C5: in every turn of the loop of TransformPublish, a key that passes the
\* checks before the still-valid check and ends after maxIntervalNumber is
\* rejected as still valid unless the override is explicitly enabled when
\* the key is checked (unset, empty and non-boolean values do not enable
\* it), and is let through that check only when it is.
C5_StillValidEnforcedByDefault ==
    [][KeyStep =>
          ((/\ StepOutcome \notin
                  {"illegal base64 data", "invalid key length", "invalid interval count",
                   "interval number is too old", "interval number is in the future"}
            /\ inData.Keys[StepKey].IntervalNumber + inData.Keys[StepKey].IntervalCount
                  > IntervalNumber(batchTime))
              => /\ ~ExplicitlyEnabled(env) => StepOutcome = "key that is still valid"
                 /\ StepOutcome # "key that is still valid" => ExplicitlyEnabled(env))]_vars

\* C5 witness: with the variable set to a string that is no boolean, the
\* second key of a batch, ending after maxIntervalNumber, was rejected as
\* still valid.
C5_Witness ==
    /\ ReachedKeys
    /\ env = SetTo(<<"y", "e", "s">>)
    /\ Result.transformed = 2
    /\ StillValidCase(out, 2)
    /\ KeyOutcome(out, 2) = "key that is still valid"

\* C6: a request with no key fails as empty and a request with more keys
\* than the maxExposureKeys of the transformer fails as too many, both before any key is
\* transformed; a successful call had between 1 and maxExposureKeys keys,
\* at most 21.
C6_KeyCountBounds ==
    Called =>
        /\ Len(inData.Keys) = 0 =>
              /\ Result.err.kind = "no exposure keys in publish request"
              /\ Result.transformed = 0
        /\ (transformer # NilTransformer
                /\ Len(inData.Keys) > transformer.maxExposureKeys) =>
              /\ Result.err.kind = "too many exposure keys in publish"
              /\ Result.transformed = 0
        /\ Result.err = NoError =>
              /\ 1 <= Len(inData.Keys)
              /\ Len(inData.Keys) <= transformer.maxExposureKeys
              /\ Len(inData.Keys) <= 21

\* C6 witness: 22 keys given to a transformer whose limit is 21.
C6_Witness ==
    /\ Called
    /\ Len(inData.Keys) = 22
    /\ transformer.maxExposureKeys = 21
    /\ Result.err.kind = "too many exposure keys in publish"


\* What the record of a key must hold.
RecordOf(k) ==
    [ExposureKey |-> DecodeString(k.Key).bytes,
     TransmissionRisk |-> k.TransmissionRisk,
     AppPackageName |-> inData.AppPackageName,
     Regions |-> [i \in 1..Len(inData.Regions) |-> ToUpper(inData.Regions[i])],
     IntervalNumber |-> k.IntervalNumber,
     IntervalCount |-> k.IntervalCount,
     CreatedAt |-> TruncateWindow(batchTime, transformer.truncateWindow),
     LocalProvenance |-> TRUE,
     FederationSyncID |-> 0]

Count(seq, x) == Cardinality({i \in 1..Len(seq) : seq[i] = x})

\* C7: on success the records are, as a multiset, one per submitted key
\* with its decoded key, interval number, interval count and transmission
\* risk, each with the request's appPackageName, the upper-cased regions,
\* createdAt = TruncateWindow(batchTime, truncateWindow) and localProvenance
\* true, in ascending (intervalNumber, intervalCount) order.
C7_RecordsOnSuccess ==
    Succeeded =>
        LET recs == Result.records
            want == [i \in 1..Len(inData.Keys) |-> RecordOf(inData.Keys[i])]
        IN  /\ Len(recs) = Len(want)
            /\ \A i \in 1..Len(recs) : Count(recs, recs[i]) = Count(want, recs[i])
            /\ \A i \in 1..Len(want) : Count(recs, want[i]) = Count(want, want[i])
            /\ \A i, j \in 1..Len(recs) :
                  i < j =>
                      \/ recs[i].IntervalNumber < recs[j].IntervalNumber
                      \/ /\ recs[i].IntervalNumber = recs[j].IntervalNumber
                         /\ recs[i].IntervalCount <= recs[j].IntervalCount

\* C7 witness: three keys submitted out of order, two of them sharing a
\* start, returned as three records under a truncation window that moves
\* the batch time.
C7_Witness ==
    /\ Succeeded
    /\ inData.Keys = <<k2, k1, k3>>
    /\ Len(Result.records) = 3
    /\ Result.records[1].IntervalCount = 100
    /\ Result.records[1].Regions = << <<"U", "Y">> >>

\* C8: the outcome of TransformPublish is a function of the Publish value,
\* the batch time and the transformer's configuration alone: once a call has
\* returned, every later call with the same request on the same transformer
\* returns the same outcome, whatever else the process does meanwhile or
\* between two keys of the call.
C8_OutcomeDeterministic ==
    [][(Called /\ transformer' = transformer
            /\ inData' = inData /\ batchTime' = batchTime)
          => out' = out]_vars

\* floor(unixSeconds(t) / 600), with 2^32 = 600 * 7158278 + 496.
FloorInterval(t) ==
    (t.hi * 7158278) + (t.lo \div 600) + (((t.hi * 496) + (t.lo % 600)) \div 600)

\* C9: IntervalNumber(t) = floor(unixSeconds(t) / 600) for every timestamp,
\* before the Unix epoch and past 2^31 seconds included; stated for the two
\* interval numbers TransformPublish computes.
C9_IntervalNumberIsFloor ==
    ReachedKeys =>
        /\ Result.window[2] = FloorInterval(batchTime)
        /\ Result.window[1] =
              FloorInterval(AddSeconds(batchTime, -transformer.maxIntervalStartAge))

\* C10: NewTransformer returns a transformer exactly when
\* 0 < maxExposureKeys <= 21 and an error otherwise, so that every
\* transformer accepts some non-empty batch size.
C10_NewTransformerRange ==
    /\ ctor.called =>
          ((ctor.err = NoError) <=>
              (ctor.maxExposureKeys > 0 /\ ctor.maxExposureKeys <= 21))
    /\ transformer # NilTransformer => transformer.maxExposureKeys >= 1


\* The canonical content of a request: the application name, the rendered
\* key tuples with the number of times each occurs, the sorted upper-cased
\* regions and the verification payload.
CanonicalContent(p) ==
    LET tuples == [i \in 1..Len(p.Keys) |->
                      <<p.Keys[i].Key, p.Keys[i].IntervalNumber,
                        p.Keys[i].IntervalCount, p.Keys[i].TransmissionRisk>>]
    IN  [app |-> p.AppPackageName,
         keys |-> { <<tuples[i], Count(tuples, tuples[i])>> : i \in 1..Len(tuples) },
         regions |-> SortStrings([i \in 1..Len(p.Regions) |-> ToUpper(p.Regions[i])]),
         payload |-> p.VerificationPayload]

\* The Publish values of the model.
Publishes == { r.p : r \in Requests }

\* C11: the cleartext built by AndroidNonce binds the request content
\* unambiguously: a request whose canonical content differs from that of
\* the request canonicalised never has the same cleartext, also when the
\* free-form fields hold '|', ',' or '.'.
C11_CleartextUnambiguous ==
    nonce.called =>
        \A q \in Publishes :
            CanonicalContent(q) # CanonicalContent(inData)
                => nonce.value.sha256 \notin Cleartext(build, q)

====
